---- MODULE Spec2Model ----
(***************************************************************************)
(* AI Dev Studio (src/ai_dev_studio.py): the change-plan engine.           *)
(*                                                                         *)
(* Representation.                                                         *)
(*   Optional[T]   a sequence of length 0 (None) or 1 (<<value>>).         *)
(*   str (content) a sequence of one-character strings.                    *)
(*   path string   the sequence of its slash-separated segments; an        *)
(*                 absolute path string starts with the segment "/".       *)
(*   resolved Path the sequence of directory names from the filesystem     *)
(*                 root, so "/" is <<>> and "/A/d" is <<"A", "d">>.         *)
(*   dict (JSON)   a function on its keys.                                 *)
(***************************************************************************)
EXTENDS Integers, Sequences, FiniteSets, TLC

VARIABLES
    SAFE_ROOT,   \* module global SAFE_ROOT: Optional[Path]
    fs,          \* the filesystem: resolved path -> node, on the existing paths
    plan,        \* PlanView._plan: Optional[AIPlan]
    offline,     \* ChatPanel.offline_chk.isChecked()
    api_key,     \* whether OPENAI_API_KEY is set in the environment
    workers,     \* the AIWorker threads started so far, by index: their status
    events,      \* queued cross-thread signal deliveries, oldest first
    crashed,     \* the process was aborted (QThread destroyed while running)
    runs,        \* runs of the apply_changes loop on the held plan: 0, 1, 2 (twice or more)
    last         \* what the most recent handler call did and showed

vars == <<SAFE_ROOT, fs, plan, offline, api_key, workers, events, crashed, runs, last>>

----------------------------------------------------------------------------
(* Bounds of the model *)

\* AIWorker threads started in one behaviour
MaxFetches == 2
\* length of a typed instruction (SpecStub)
MaxMsgLen == 4

----------------------------------------------------------------------------
(* Optional values and sequences *)

None == <<>>
Some(x) == <<x>>

IsPrefix(s, t) == Len(s) <= Len(t) /\ SubSeq(t, 1, Len(s)) = s

Front(s) == IF s = <<>> THEN s ELSE SubSeq(s, 1, Len(s) - 1)

\* the sequences over S of length at most n
SeqsUpTo(S, n) == UNION {[1..k -> S] : k \in 0..n}

----------------------------------------------------------------------------
(* The filesystem *)

Dir == [kind |-> "dir"]
File(c) == [kind |-> "file", content |-> c]
Link(t) == [kind |-> "link", target |-> t]

RootA == <<"A">>
RootB == <<"B">>
\* the directories the folder dialog can return
Roots == {RootA, RootB}

Hi == <<"h", "i">>

\* Two project folders beside system files; A holds a symlink leaving the project.
InitFs ==
    (<<>> :> Dir) @@ (RootA :> Dir) @@ (RootB :> Dir) @@ (<<"etc">> :> Dir)
    @@ (<<"etc", "hosts">> :> File(<<"s">>))
    @@ (<<"A", "lnk">> :> Link(<<"etc">>))

exists(f, p) == p \in DOMAIN f

is_dir(f, p) == exists(f, p) /\ f[p].kind = "dir"

\* Path.resolve(): "." dropped, ".." pops, a symlink component replaced by its target
RECURSIVE ResolveFrom(_, _, _)
ResolveFrom(f, cur, segs) ==
    IF segs = <<>> THEN cur
    ELSE LET s == Head(segs)
             next == IF s = "." THEN cur
                     ELSE IF s = ".." THEN (IF cur = <<>> THEN cur ELSE Front(cur))
                     ELSE LET cand == Append(cur, s)
                          IN IF exists(f, cand) /\ f[cand].kind = "link"
                             THEN f[cand].target ELSE cand
         IN ResolveFrom(f, next, Tail(segs))

\* SAFE_ROOT / p: an absolute right operand replaces the left one
Join(root, p) ==
    IF p # <<>> /\ Head(p) = "/" THEN Tail(p) ELSE root \o p

\* (SAFE_ROOT / p).resolve()
resolve(f, root, p) == ResolveFrom(f, <<>>, Join(root, p))

\* clamp_to_root with the containment test dropped
clamp_unchecked(f, root, p) == [ok |-> TRUE, path |-> resolve(f, root, p)]

\* clamp_to_root: the resolved path, or ValueError when it leaves SAFE_ROOT
clamp_to_root(f, root, p) ==
    LET r == resolve(f, root, p)
    IN IF ~IsPrefix(root, r) THEN [ok |-> FALSE, path |-> r]
       ELSE [ok |-> TRUE, path |-> r]

\* Path.exists() of the resolved target of a delete, taken to be always true
target_exists_always(f, p) == TRUE

\* target.exists() as apply_changes asks it before unlink
target_exists(f, p) == exists(f, p)

\* Path.unlink(): a missing path or a directory cannot be unlinked
unlink(f, p) ==
    IF ~exists(f, p) \/ f[p].kind = "dir" THEN [ok |-> FALSE, fs |-> f]
    ELSE [ok |-> TRUE, fs |-> [q \in DOMAIN f \ {p} |-> f[q]]]

\* the proper prefixes of p and p itself, root excluded
Ancestors(p) == {SubSeq(p, 1, k) : k \in 1..Len(p)}

\* Path.mkdir(parents=True, exist_ok=True): every missing ancestor is created;
\* an existing non-directory on the way raises and nothing is created
mkdir_parents(f, p) ==
    IF \E a \in Ancestors(p) : exists(f, a) /\ f[a].kind # "dir"
    THEN [ok |-> FALSE, fs |-> f]
    ELSE [ok |-> TRUE,
          fs |-> [q \in DOMAIN f \cup Ancestors(p) |->
                     IF q \in DOMAIN f THEN f[q] ELSE Dir]]

\* Path.write_text(): a directory cannot be opened for writing
write_text(f, p, c) ==
    IF is_dir(f, p) \/ ~is_dir(f, Front(p)) THEN [ok |-> FALSE, fs |-> f]
    ELSE [ok |-> TRUE,
          fs |-> [q \in DOMAIN f \cup {p} |-> IF q = p THEN File(c) ELSE f[q]]]

----------------------------------------------------------------------------
(* apply_changes: one operation, then the loop over the plan *)

\* the node at p, None when nothing is there
NodeAt(f, p) == IF exists(f, p) THEN Some(f[p]) ELSE None

\* the paths whose node differs between f and g
Wrote(f, g) == {p \in DOMAIN f \cup DOMAIN g : NodeAt(f, p) # NodeAt(g, p)}

Failed(f, ch, target, why) ==
    [ok |-> FALSE, fs |-> f, target |-> target,
     err |-> Some([op |-> ch.op, path |-> ch.path, reason |-> why])]

Applied(f, target) == [ok |-> TRUE, fs |-> f, target |-> target, err |-> None]

\* the try block with create refusing a target that is already there
ApplyOneCreateExclusive(f, root, ch) ==
    LET c == clamp_to_root(f, root, ch.path)
        target == c.path
    IN IF ~c.ok THEN Failed(f, ch, target, "outside project")
       ELSE IF ch.op = "delete" THEN
           IF target_exists(f, target)
           THEN LET u == unlink(f, target)
                IN IF u.ok THEN Applied(u.fs, target) ELSE Failed(f, ch, target, "OSError")
           ELSE Applied(f, target)
       ELSE IF ch.op \in {"create", "update"} THEN
           IF ch.content = None THEN Failed(f, ch, target, "no content")
           ELSE IF ch.op = "create" /\ exists(f, target)
           THEN Failed(f, ch, target, "FileExistsError")
           ELSE LET m == mkdir_parents(f, Front(target))
                IN IF ~m.ok THEN Failed(f, ch, target, "OSError")
                   ELSE LET w == write_text(m.fs, target, ch.content[1])
                        IN IF w.ok THEN Applied(w.fs, target)
                           ELSE Failed(m.fs, ch, target, "OSError")
       ELSE Failed(f, ch, target, "unknown op")

\* the body of the try block for one FileChange
ApplyOne(f, root, ch) ==
    LET c == clamp_to_root(f, root, ch.path)
        target == c.path
    IN IF ~c.ok THEN Failed(f, ch, target, "outside project")
       ELSE IF ch.op = "delete" THEN
           IF target_exists(f, target)
           THEN LET u == unlink(f, target)
                IN IF u.ok THEN Applied(u.fs, target) ELSE Failed(f, ch, target, "OSError")
           ELSE Applied(f, target)
       ELSE IF ch.op \in {"create", "update"} THEN
           IF ch.content = None THEN Failed(f, ch, target, "no content")
           ELSE LET m == mkdir_parents(f, Front(target))
                IN IF ~m.ok THEN Failed(f, ch, target, "OSError")
                   ELSE LET w == write_text(m.fs, target, ch.content[1])
                        IN IF w.ok THEN Applied(w.fs, target)
                           ELSE Failed(m.fs, ch, target, "OSError")
       ELSE Failed(f, ch, target, "unknown op")

\* what one iteration of the loop did: whether the try block completed, the
\* resolved target, the node there before and after, the paths it changed
Iteration(f, r) ==
    [ok |-> r.ok, target |-> r.target, before |-> NodeAt(f, r.target),
     after |-> NodeAt(r.fs, r.target), wrote |-> Wrote(f, r.fs)]

\* the loop leaving at the first failing operation
RECURSIVE ApplyLoopAbort(_, _, _, _, _)
ApplyLoopAbort(f, root, changes, errors, log) ==
    IF changes = <<>> THEN [fs |-> f, errors |-> errors, log |-> log]
    ELSE LET r == ApplyOne(f, root, Head(changes))
         IN IF r.ok
            THEN ApplyLoopAbort(r.fs, root, Tail(changes), errors,
                                Append(log, Iteration(f, r)))
            ELSE [fs |-> r.fs, errors |-> errors \o r.err,
                  log |-> Append(log, Iteration(f, r))]

\* the loop putting each new error before the earlier ones
RECURSIVE ApplyLoopNewestFirst(_, _, _, _, _)
ApplyLoopNewestFirst(f, root, changes, errors, log) ==
    IF changes = <<>> THEN [fs |-> f, errors |-> errors, log |-> log]
    ELSE LET r == ApplyOne(f, root, Head(changes))
         IN IF r.ok
            THEN ApplyLoopNewestFirst(r.fs, root, Tail(changes), errors,
                                      Append(log, Iteration(f, r)))
            ELSE ApplyLoopNewestFirst(r.fs, root, Tail(changes), r.err \o errors,
                                      Append(log, Iteration(f, r)))

\* for ch in self._plan.changes: the try block completes, or the except branch
\* appends to errors; either way the loop goes on with the next operation
RECURSIVE ApplyLoop(_, _, _, _, _)
ApplyLoop(f, root, changes, errors, log) ==
    IF changes = <<>> THEN [fs |-> f, errors |-> errors, log |-> log]
    ELSE LET r == ApplyOne(f, root, Head(changes))
         IN IF r.ok
            THEN ApplyLoop(r.fs, root, Tail(changes), errors,
                           Append(log, Iteration(f, r)))
            ELSE ApplyLoop(r.fs, root, Tail(changes), errors \o r.err,
                           Append(log, Iteration(f, r)))

----------------------------------------------------------------------------
(* Plans: the JSON objects, FileChange and AIPlan *)

\* dict.get(key), None when the key is missing
get(d, key) == IF key \in DOMAIN d THEN Some(d[key]) ELSE None

\* a JSON value that is no object has no .get
Scalar == [scalar |-> TRUE]
IsObject(c) == "scalar" \notin DOMAIN c

\* FileChange(op=c.get('op'), path=c.get('path'), content=c.get('content'))
FileChange(c) == [op |-> c.op, path |-> c.path, content |-> get(c, "content")]

KnownOps == {"create", "update", "delete"}

\* an operation object decode would have to refuse under a strict schema
MalformedObj(c) ==
    \/ c.op \notin KnownOps
    \/ c.op \in {"create", "update"} /\ "content" \notin DOMAIN c

\* a decode that refuses a dict without changes or with a malformed operation
AIPlanOfStrict(plan_dict) ==
    IF \/ "changes" \notin DOMAIN plan_dict
       \/ \E i \in 1..Len(plan_dict.changes) :
             ~IsObject(plan_dict.changes[i]) \/ MalformedObj(plan_dict.changes[i])
    THEN [ok |-> FALSE, plan |-> None]
    ELSE [ok |-> TRUE,
          plan |-> Some([changes |-> [i \in 1..Len(plan_dict.changes) |->
                                         [op |-> plan_dict.changes[i].op,
                                          path |-> plan_dict.changes[i].path,
                                          content |-> get(plan_dict.changes[i], "content")]],
                         notes |-> IF "notes" \in DOMAIN plan_dict
                                   THEN plan_dict.notes ELSE ""])]

\* load_plan's try block: the AIPlan, or the exception of the comprehension
AIPlanOf(plan_dict) ==
    LET cs == IF "changes" \in DOMAIN plan_dict THEN plan_dict.changes ELSE <<>>
    IN IF \E i \in 1..Len(cs) : ~IsObject(cs[i])
       THEN [ok |-> FALSE, plan |-> None]
       ELSE [ok |-> TRUE,
             plan |-> Some([changes |-> [i \in 1..Len(cs) |-> FileChange(cs[i])],
                            notes |-> IF "notes" \in DOMAIN plan_dict
                                      THEN plan_dict.notes ELSE ""])]

\* the response texts the remote service returns in this model
Obj(op, path, content) == [op |-> op, path |-> path, content |-> content]
NoContent(op, path) == [op |-> op, path |-> path]

TextGarbage == [valid |-> FALSE]
TextNoChanges == [valid |-> TRUE, value |-> [notes |-> "nothing to do"]]
TextScalar ==
    [valid |-> TRUE,
     value |-> [changes |-> <<Obj("create", <<"README.md">>, Hi), Scalar>>, notes |-> "n"]]
TextMixed ==
    [valid |-> TRUE,
     value |-> [changes |-> <<Obj("create", <<"d", "..", "README.md">>, Hi),
                              Obj("rename", <<"README.md">>, Hi),
                              NoContent("update", <<"d", "b.txt">>),
                              Obj("update", <<"d", "b.txt">>, Hi)>>,
                notes |-> "mixed"]]
TextEscape ==
    [valid |-> TRUE,
     value |-> [changes |-> <<Obj("create", <<"..", "B", "README.md">>, Hi),
                              NoContent("delete", <<"/", "etc", "hosts">>),
                              Obj("update", <<"lnk", "hosts">>, Hi),
                              NoContent("delete", <<"missing.txt">>),
                              NoContent("delete", <<"README.md">>),
                              NoContent("delete", <<"d">>)>>,
                notes |-> "escape"]]

Responses == {TextGarbage, TextNoChanges, TextScalar, TextMixed, TextEscape}

\* json.loads: the object, or an exception on text that is no JSON
json_loads(text) ==
    IF text.valid THEN [ok |-> TRUE, value |-> text.value] ELSE [ok |-> FALSE]

----------------------------------------------------------------------------
(* Instructions and the offline stub *)

Whitespace == {" ", "\n", "\t"}

\* str.strip(): whitespace removed at both ends
RECURSIVE lstrip(_)
lstrip(s) == IF s # <<>> /\ Head(s) \in Whitespace THEN lstrip(Tail(s)) ELSE s

RECURSIVE rstrip(_)
rstrip(s) == IF s # <<>> /\ s[Len(s)] \in Whitespace THEN rstrip(Front(s)) ELSE s

strip(s) == rstrip(lstrip(s))

\* "# Projekt\n\nInstrukcja: "
StubPrefix ==
    <<"#", " ", "P", "r", "o", "j", "e", "k", "t", "\n", "\n",
      "I", "n", "s", "t", "r", "u", "k", "c", "j", "a", ":", " ">>

StubNotes == "Tryb offline: tylko przyklad tworzenia README.md"

\* the stub plan with the instruction left out of the content
StubPlanBlank(msg) ==
    [changes |-> <<Obj("create", <<"README.md">>, StubPrefix \o <<"\n">>)>>,
     notes |-> StubNotes]

\* the plan dict on_send builds in offline mode
StubPlan(msg) ==
    [changes |-> <<Obj("create", <<"README.md">>, StubPrefix \o msg \o <<"\n">>)>>,
     notes |-> StubNotes]

\* whether sub occurs in s as a contiguous run
Contains(s, sub) ==
    \E i \in 0..(Len(s) - Len(sub)) : Len(sub) <= Len(s) /\ SubSeq(s, i + 1, i + Len(sub)) = sub

----------------------------------------------------------------------------
(* Handlers *)

\* What a handler call took and showed: the text typed (on_send), the dict
\* decoded (_on_ai_plan), whether load_plan assigned self._plan, the message
\* box, the chat line of the AI, the errors list and the iterations of
\* apply_changes, and an exception that left the slot.
Shown(handler) ==
    [handler |-> handler, msg |-> <<>>, parsed |-> None, loaded |-> FALSE,
     dialog |-> "none", said |-> "none", errors |-> <<>>, log |-> <<>>,
     raised |-> "none"]

Init ==
    /\ SAFE_ROOT = None
    /\ fs = InitFs
    /\ plan = None
    /\ offline = TRUE
    /\ api_key \in BOOLEAN
    /\ workers = <<>>
    /\ events = <<>>
    /\ crashed = FALSE
    /\ runs = 0
    /\ last = Shown("idle")

\* MainWindow.open_folder, with a directory picked in the folder dialog
open_folder(root) ==
    /\ ~crashed
    /\ SAFE_ROOT' = Some(ResolveFrom(fs, <<>>, root))
    /\ last' = Shown("idle")
    /\ UNCHANGED <<fs, plan, offline, api_key, workers, events, crashed, runs>>

\* the offline check box (menu AI, or the box of the chat panel)
toggle_offline ==
    /\ ~crashed
    /\ offline' = ~offline
    /\ last' = Shown("idle")
    /\ UNCHANGED <<SAFE_ROOT, fs, plan, api_key, workers, events, crashed, runs>>

\* PlanView.load_plan, reached through ai_response_ready and on_ai_plan_ready
load_plan(plan_dict, shown) ==
    LET r == AIPlanOf(plan_dict)
    IN IF r.ok
       THEN /\ plan' = r.plan
            /\ runs' = 0
            /\ last' = [shown EXCEPT !.loaded = TRUE]
       ELSE /\ plan' = plan
            /\ runs' = runs
            /\ last' = [shown EXCEPT !.dialog = "critical: bad plan"]

\* ChatPanel.call_openai: the worker is started and its only reference dropped
call_openai(user_msg, shown) ==
    /\ Len(workers) < MaxFetches
    /\ workers' = Append(workers, [user_msg |-> user_msg, status |-> "running", notified |-> 0])
    /\ last' = shown
    /\ UNCHANGED <<plan, runs>>

\* ChatPanel.on_send with m typed in the prompt
on_send(m) ==
    LET msg == strip(m)
        shown == [Shown("on_send") EXCEPT !.msg = m]
    IN /\ ~crashed
       /\ IF msg = <<>>
          THEN /\ last' = shown
               /\ UNCHANGED <<plan, runs, workers>>
          ELSE IF offline
          THEN /\ load_plan(StubPlan(msg), [shown EXCEPT !.said = "plan"])
               /\ UNCHANGED workers
          ELSE call_openai(msg, shown)
       /\ UNCHANGED <<SAFE_ROOT, fs, offline, api_key, events, crashed>>

\* AIWorker.run: one emission, queued to the thread of the chat panel
worker_run(w) ==
    /\ ~crashed
    /\ w \in 1..Len(workers)
    /\ workers[w].status = "running"
    /\ \/ /\ ~api_key
          /\ events' = Append(events, [w |-> w, signal |-> "error_signal",
                                       text |-> [error |-> "RuntimeError: no key"]])
       \/ /\ api_key
          /\ events' = Append(events, [w |-> w, signal |-> "error_signal",
                                       text |-> [error |-> "remote call raised"]])
       \/ /\ api_key
          /\ \E t \in Responses :
                events' = Append(events, [w |-> w, signal |-> "finished_plan", text |-> t])
    /\ workers' = [workers EXCEPT ![w].status = "finished"]
    /\ UNCHANGED <<SAFE_ROOT, fs, plan, offline, api_key, crashed, runs, last>>

\* call_openai keeps no reference to the worker it starts, so the wrapper can be
\* collected while the thread still runs: Qt then aborts the process ("QThread:
\* Destroyed while thread is still running"). Whether the collection comes before
\* the thread has finished is a race. Of an aborted process only the filesystem
\* is left; workers is kept as the record of what was started.
worker_destroyed(w) ==
    /\ ~crashed
    /\ w \in 1..Len(workers)
    /\ workers[w].status = "running"
    /\ crashed' = TRUE
    /\ workers' = [workers EXCEPT ![w].status = "destroyed"]
    /\ SAFE_ROOT' = None
    /\ plan' = None
    /\ offline' = TRUE
    /\ events' = <<>>
    /\ runs' = 0
    /\ last' = Shown("aborted")
    /\ UNCHANGED <<fs, api_key>>

\* ChatPanel._on_ai_plan
_on_ai_plan(plan_json) ==
    LET j == json_loads(plan_json)
        shown == [Shown("_on_ai_plan") EXCEPT !.said = "plan"]
    IN IF j.ok
       THEN load_plan(j.value, [shown EXCEPT !.parsed = Some(j.value)])
       ELSE /\ last' = [shown EXCEPT !.said = "parse error"]
            /\ UNCHANGED <<plan, runs>>

\* _on_ai_error also dropping the held plan
_on_ai_error_drops_plan(err) ==
    /\ last' = [Shown("_on_ai_error") EXCEPT !.said = "ai error"]
    /\ plan' = None
    /\ runs' = 0

\* ChatPanel._on_ai_error
_on_ai_error(err) ==
    /\ last' = [Shown("_on_ai_error") EXCEPT !.said = "ai error"]
    /\ UNCHANGED <<plan, runs>>

\* the event loop of the main thread delivers the oldest queued signal to its slot
deliver ==
    /\ ~crashed
    /\ events # <<>>
    /\ LET e == Head(events)
       IN /\ IF e.signal = "finished_plan" THEN _on_ai_plan(e.text) ELSE _on_ai_error(e.text)
          /\ workers' = [workers EXCEPT ![e.w].notified = @ + 1]
    /\ events' = Tail(events)
    /\ UNCHANGED <<SAFE_ROOT, fs, offline, api_key, crashed>>

\* the loop resolving against the folder that was open first, not SAFE_ROOT
run_plan_stale_root(root) ==
    LET r == ApplyLoop(fs, RootA, plan[1].changes, <<>>, <<>>)
    IN /\ fs' = r.fs
       /\ runs' = IF runs < 2 THEN runs + 1 ELSE runs
       /\ last' = [Shown("apply_changes") EXCEPT
                      !.errors = r.errors, !.log = r.log,
                      !.dialog = IF r.errors # <<>> THEN "critical: errors"
                                 ELSE "information: applied",
                      !.raised = "AttributeError"]

\* apply_changes from "errors = []" on: the loop, the message box, and the
\* refresh of the explorer. self.parent().parent() is the outer QSplitter, which
\* has no refresh_explorer, so the last statement raises AttributeError.
run_plan(root) ==
    LET r == ApplyLoop(fs, root, plan[1].changes, <<>>, <<>>)
    IN /\ fs' = r.fs
       /\ runs' = IF runs < 2 THEN runs + 1 ELSE runs
       /\ last' = [Shown("apply_changes") EXCEPT
                      !.errors = r.errors, !.log = r.log,
                      !.dialog = IF r.errors # <<>> THEN "critical: errors"
                                 ELSE "information: applied",
                      !.raised = "AttributeError"]

\* apply_changes without the SAFE_ROOT test, an unset root taken as "/"
apply_changes_no_root_test ==
    /\ ~crashed
    /\ IF plan = None
       THEN /\ last' = Shown("apply_changes")
            /\ UNCHANGED <<fs, runs>>
       ELSE run_plan(IF SAFE_ROOT = None THEN <<>> ELSE SAFE_ROOT[1])
    /\ UNCHANGED <<SAFE_ROOT, plan, offline, api_key, workers, events, crashed>>

\* apply_changes discarding the plan once its loop has run
apply_changes_consumes ==
    /\ ~crashed
    /\ IF plan = None
       THEN /\ last' = Shown("apply_changes")
            /\ UNCHANGED <<fs, runs, plan>>
       ELSE IF SAFE_ROOT = None
       THEN /\ last' = [Shown("apply_changes") EXCEPT !.dialog = "warning: open a folder"]
            /\ UNCHANGED <<fs, runs, plan>>
       ELSE /\ run_plan(SAFE_ROOT[1])
            /\ plan' = None
    /\ UNCHANGED <<SAFE_ROOT, offline, api_key, workers, events, crashed>>

\* PlanView.apply_changes (the button "Zastosuj zmiany")
apply_changes ==
    /\ ~crashed
    /\ IF plan = None
       THEN /\ last' = Shown("apply_changes")
            /\ UNCHANGED <<fs, runs>>
       ELSE IF SAFE_ROOT = None
       THEN /\ last' = [Shown("apply_changes") EXCEPT !.dialog = "warning: open a folder"]
            /\ UNCHANGED <<fs, runs>>
       ELSE run_plan(SAFE_ROOT[1])
    /\ UNCHANGED <<SAFE_ROOT, plan, offline, api_key, workers, events, crashed>>

\* the instruction typed in the main specification (SpecStub types them all)
Prompts == {<<" ", "a", " ">>}

Next ==
    \/ \E root \in Roots : open_folder(root)
    \/ toggle_offline
    \/ \E m \in Prompts : on_send(m)
    \/ \E w \in 1..MaxFetches : worker_run(w)
    \/ \E w \in 1..MaxFetches : worker_destroyed(w)
    \/ deliver
    \/ apply_changes

Spec == Init /\ [][Next]_vars

\* The offline stub alone, over every instruction up to MaxMsgLen characters
Alphabet == {" ", "a", "b"}
Instructions == SeqsUpTo(Alphabet, MaxMsgLen)

InitStub == Init /\ api_key = FALSE

NextStub == \E m \in Instructions : on_send(m)

SpecStub == InitStub /\ [][NextStub]_vars

\* One create or update applied on its own. The state from which it starts is the
\* one left by open_folder(RootA) and the delivery of a response holding that
\* single operation, on a disk where the target is absent, a file, a directory,
\* or below a file.
WriteDisks ==
    { InitFs,
      InitFs @@ (<<"A", "d">> :> Dir) @@ (<<"A", "d", "f.txt">> :> File(<<"s">>))
             @@ (<<"A", "f.txt">> :> File(Hi)),
      InitFs @@ (<<"A", "d">> :> File(<<"s">>)) }

WritePaths ==
    { <<"f.txt">>, <<"d", "f.txt">>, <<"d", "e", "f.txt">>, <<"d">>, <<".">> }

WriteContents == { <<>>, Hi, <<"s">> }

WriteDicts ==
    { [changes |-> <<Obj(op, p, c)>>, notes |-> "write"] :
          op \in {"create", "update"}, p \in WritePaths, c \in WriteContents }

InitWrite ==
    /\ SAFE_ROOT = Some(RootA)
    /\ fs \in WriteDisks
    /\ \E d \in WriteDicts :
          /\ plan = AIPlanOf(d).plan
          /\ last = [Shown("_on_ai_plan") EXCEPT
                        !.said = "plan", !.parsed = Some(d), !.loaded = TRUE]
    /\ offline = FALSE
    /\ api_key = TRUE
    /\ workers = <<[user_msg |-> <<"a">>, status |-> "finished", notified |-> 1]>>
    /\ events = <<>>
    /\ crashed = FALSE
    /\ runs = 0

NextWrite == apply_changes

SpecWrite == InitWrite /\ [][NextWrite]_vars

\* Switching the project folder while a plan is held and a fetch is in flight.
\* The state from which it starts is the one left by open_folder(RootA), an
\* instruction sent offline (the stub plan is held) and the same instruction sent
\* online (its worker runs). The folder dialog can then return A, B, or the
\* folder n inside A.
RootN == <<"A", "n">>

SwitchRoots == Roots \cup {RootN}

InitSwitch ==
    /\ SAFE_ROOT = Some(RootA)
    /\ fs = InitFs @@ (RootN :> Dir)
    /\ plan = AIPlanOf(StubPlan(<<"a">>)).plan
    /\ offline = FALSE
    /\ api_key \in BOOLEAN
    /\ workers = <<[user_msg |-> <<"a">>, status |-> "running", notified |-> 0]>>
    /\ events = <<>>
    /\ crashed = FALSE
    /\ runs = 0
    /\ last = [Shown("on_send") EXCEPT !.msg = <<"a">>]

NextSwitch ==
    \/ \E root \in SwitchRoots : open_folder(root)
    \/ worker_run(1)
    \/ worker_destroyed(1)
    \/ deliver
    \/ apply_changes

SpecSwitch == InitSwitch /\ [][NextSwitch]_vars

----------------------------------------------------------------------------
(* Properties *)

\* The last handler was apply_changes and its loop ran. No handler has run since,
\* so plan and SAFE_ROOT are the ones of that call and fs is what it left.
ApplyShown == last.handler = "apply_changes" /\ last.raised = "AttributeError"

\* a step that is a call of apply_changes (a call that changes nothing stutters)
ApplyCalled ==
    /\ last'.handler = "apply_changes"
    /\ <<fs, plan, runs, last>>' # <<fs, plan, runs, last>>
    /\ UNCHANGED <<SAFE_ROOT, offline, api_key, workers, events, crashed>>

\* a step in which the event loop delivered the oldest queued signal
Delivered == events # <<>> /\ events' = Tail(events) /\ ~crashed'

Root == SAFE_ROOT[1]
Changes == plan[1].changes

\* an operation of a plan that a strict decode would have refused
MalformedChange(ch) ==
    \/ ch.op \notin KnownOps
    \/ ch.op \in {"create", "update"} /\ ch.content = None

MalformedDict(d) ==
    \/ "changes" \notin DOMAIN d
    \/ \E i \in 1..Len(d.changes) : IsObject(d.changes[i]) /\ MalformedObj(d.changes[i])

\* C1: no step changes a node of the filesystem outside the open project folder,
\* and in a run of apply_changes every iteration changes nodes under SAFE_ROOT
\* only; an operation whose path resolves outside SAFE_ROOT is failed, recorded
\* in errors and changes nothing.
C1_SandboxedWrites ==
    [][ /\ \A p \in Wrote(fs, fs') : SAFE_ROOT # None /\ IsPrefix(SAFE_ROOT[1], p)
        /\ ApplyShown' =>
              \A i \in 1..Len(last'.log) :
                  LET it == last'.log[i]
                      ch == plan'[1].changes[i]
                  IN /\ \A p \in it.wrote : IsPrefix(SAFE_ROOT'[1], p)
                     /\ ~IsPrefix(SAFE_ROOT'[1], it.target) =>
                           /\ ~it.ok
                           /\ it.wrote = {}
                           /\ \E k \in 1..Len(last'.errors) :
                                 /\ last'.errors[k].op = ch.op
                                 /\ last'.errors[k].path = ch.path
                                 /\ last'.errors[k].reason = "outside project" ]_vars

\* C1 witness: one run refused a "..", an absolute and a symlinked path that leave
\* the project, and wrote a file inside it.
C1_Witness ==
    /\ ApplyShown
    /\ \E i \in 1..Len(last.log) : ~IsPrefix(Root, last.log[i].target) /\ Changes[i].path[1] = ".."
    /\ \E i \in 1..Len(last.log) : ~IsPrefix(Root, last.log[i].target) /\ Changes[i].path[1] = "/"
    /\ \E i \in 1..Len(last.log) : ~IsPrefix(Root, last.log[i].target) /\ Changes[i].path[1] = "lnk"
    /\ \E i \in 1..Len(last.log) : last.log[i].ok /\ last.log[i].wrote # {}

\* C2: a run of apply_changes attempts every operation of the plan, whatever
\* failed before it; a failed operation changes nothing and adds one entry to
\* errors; what a successful operation left at its target is still there at the
\* end unless a later operation of the plan changed that path.
C2_BestEffort ==
    ApplyShown =>
        /\ Len(last.log) = Len(Changes)
        /\ Len(last.errors) = Cardinality({i \in 1..Len(last.log) : ~last.log[i].ok})
        /\ \A i \in 1..Len(last.log) :
              LET it == last.log[i]
                  later == UNION {last.log[j].wrote : j \in (i + 1)..Len(last.log)}
              IN /\ ~it.ok => it.wrote = {}
                 /\ (it.ok /\ it.target \notin later) =>
                       /\ NodeAt(fs, it.target) = it.after
                       /\ Changes[i].op \in {"create", "update"} =>
                             it.after = Some(File(Changes[i].content[1]))

\* C2 witness: an operation that wrote, then two that failed, then one that wrote.
C2_Witness ==
    /\ ApplyShown
    /\ \E i, j, k \in 1..Len(last.log) :
          /\ i < j /\ j < k
          /\ last.log[i].ok /\ last.log[i].wrote # {}
          /\ ~last.log[j].ok
          /\ last.log[k].ok /\ last.log[k].wrote # {}
          /\ NodeAt(fs, last.log[i].target) = last.log[i].after

\* C3: apply_changes called with a plan held and SAFE_ROOT unset shows the
\* warning, attempts no operation and leaves the filesystem as it was.
C3_NoProjectOpen ==
    [][ (ApplyCalled /\ SAFE_ROOT = None /\ plan # None) =>
            /\ fs' = fs
            /\ last'.dialog = "warning: open a folder"
            /\ last'.log = <<>>
            /\ last'.errors = <<>> ]_vars

\* C3 witness: the warning was shown for a held plan with operations.
C3_Witness ==
    /\ last.handler = "apply_changes"
    /\ last.dialog = "warning: open a folder"
    /\ SAFE_ROOT = None
    /\ plan # None
    /\ Changes # <<>>

C6_ExactlyOne ==
    \A w \in 1..Len(workers) :
        /\ workers[w].notified <= 1
        /\ (/\ workers[w].status # "running"
            /\ \A k \in 1..Len(events) : events[k].w # w) => workers[w].notified = 1

\* C7 as claimed: in offline mode every instruction yields a plan of one create
\* whose content contains the instruction as typed.
C7_Original ==
    (last.handler = "on_send" /\ offline) =>
        /\ last.loaded
        /\ plan # None
        /\ Len(Changes) = 1
        /\ Changes[1].op = "create"
        /\ Changes[1].content # None
        /\ Contains(Changes[1].content[1], last.msg)
        /\ plan[1].notes # ""

\* C7 as amended: in offline mode an instruction whose stripped text is not empty
\* yields a plan of one create whose content contains the stripped text, with
\* notes that are not empty; an empty or blank instruction yields no plan.
C7_StubEmbedsStripped ==
    (last.handler = "on_send" /\ offline) =>
        IF strip(last.msg) = <<>>
        THEN ~last.loaded /\ last.said = "none"
        ELSE /\ last.loaded
             /\ plan # None
             /\ Len(Changes) = 1
             /\ Changes[1].op = "create"
             /\ Changes[1].content # None
             /\ Contains(Changes[1].content[1], strip(last.msg))
             /\ plan[1].notes # ""

\* C7 witness: an instruction with blanks around it produced the stub plan.
C7_Witness ==
    /\ last.handler = "on_send"
    /\ offline
    /\ last.msg = <<" ", "a", "b", " ">>
    /\ last.loaded
    /\ plan # None
    /\ ~Contains(Changes[1].content[1], last.msg)

\* the operations of changes whose iteration failed, in plan order
RECURSIVE FailuresOf(_, _)
FailuresOf(changes, log) ==
    IF changes = <<>> THEN <<>>
    ELSE (IF log[1].ok THEN <<>> ELSE <<[op |-> changes[1].op, path |-> changes[1].path]>>)
         \o FailuresOf(Tail(changes), Tail(log))

\* C8 as claimed: the report of a run has one entry per operation of the plan.
C8_Original ==
    ApplyShown => Len(last.errors) = Len(Changes)

\* C8 as amended: the errors list of a run has one entry per failed operation, in
\* plan order, and none for an applied one; the message box is the critical one
\* exactly when the list is not empty.
C8_ErrorsPerFailure ==
    ApplyShown =>
        /\ Len(last.log) = Len(Changes)
        /\ [k \in 1..Len(last.errors) |->
               [op |-> last.errors[k].op, path |-> last.errors[k].path]]
             = FailuresOf(Changes, last.log)
        /\ last.dialog = IF last.errors = <<>> THEN "information: applied"
                         ELSE "critical: errors"

\* C8 witness: a run with two failures among more operations.
C8_Witness ==
    /\ ApplyShown
    /\ Len(last.errors) = 2
    /\ last.errors[1] # last.errors[2]
    /\ Len(last.errors) < Len(Changes)

\* C9 as claimed: the loop of apply_changes runs at most once on a loaded plan.
C9_Original == runs <= 1

\* C9 as amended: apply_changes leaves the held plan in place, and every call
\* made with a project open runs the loop over all of its operations again.
C9_PlanKept ==
    [][ ApplyCalled =>
            /\ plan' = plan
            /\ (plan # None /\ SAFE_ROOT # None) =>
                  /\ Len(last'.log) = Len(plan[1].changes)
                  /\ runs' >= 1
                  /\ runs >= 1 => runs' = 2 ]_vars

\* C9 witness: the loop has run twice on the held plan and wrote the second time.
C9_Witness ==
    /\ ApplyShown
    /\ runs = 2
    /\ plan # None
    /\ \E i \in 1..Len(last.log) : last.log[i].wrote # {}

\* C10: in a run of apply_changes, a delete whose target is inside SAFE_ROOT and
\* absent succeeds and changes nothing; one whose target is a file succeeds and
\* leaves the target absent.
C10_DeleteAbsentOrFile ==
    ApplyShown =>
        \A i \in 1..Len(last.log) :
            LET it == last.log[i]
            IN (Changes[i].op = "delete" /\ IsPrefix(Root, it.target)) =>
                  /\ it.before = None => (it.ok /\ it.wrote = {})
                  /\ (it.before # None /\ it.before[1].kind = "file") =>
                        (it.ok /\ it.after = None /\ it.wrote = {it.target})

\* C10 witness: one run deleted a missing path and an existing file, no error
\* recorded for either.
C10_Witness ==
    /\ ApplyShown
    /\ \E i, j \in 1..Len(last.log) :
          /\ Changes[i].op = "delete" /\ last.log[i].before = None /\ last.log[i].ok
          /\ Changes[j].op = "delete" /\ last.log[j].before # None /\ last.log[j].ok
          /\ ~exists(fs, last.log[j].target)
          /\ \A k \in 1..Len(last.errors) :
                last.errors[k].path \notin {Changes[i].path, Changes[j].path}

\* whether a write of target is stopped by the disk: the target is a directory,
\* or something on the way to it is there and is no directory
WriteBlocked(f, target) ==
    \/ is_dir(f, target)
    \/ \E a \in Ancestors(Front(target)) : exists(f, a) /\ ~is_dir(f, a)

\* C11 as claimed: after a create or an update of an in-root relative path with
\* content, the file at the target holds exactly that content.
C11_Original ==
    ApplyShown =>
        \A i \in 1..Len(last.log) :
            (/\ Changes[i].op \in {"create", "update"}
             /\ Changes[i].content # None
             /\ Changes[i].path[1] # "/"
             /\ IsPrefix(Root, last.log[i].target)
             /\ \A j \in (i + 1)..Len(last.log) : last.log[i].target \notin last.log[j].wrote) =>
                /\ last.log[i].ok
                /\ NodeAt(fs, last.log[i].target) = Some(File(Changes[i].content[1]))

\* C11 as amended: a create or an update of an in-root relative path does
\* exactly what the other kind does on the same disk, whether or not the target
\* is there. When the target is no directory and nothing on the way to it is a
\* non-directory, the operation is applied: the missing parent directories are
\* created, the target is a file holding exactly the content, and nothing else
\* changes. Otherwise the operation fails, is recorded in errors and changes
\* nothing.
C11_CreateUpdateSame ==
    [][ (ApplyCalled /\ plan # None /\ SAFE_ROOT # None) =>
            LET ch == plan[1].changes[1]
                twin == [ch EXCEPT !.op = IF ch.op = "create" THEN "update" ELSE "create"]
                t == resolve(fs, SAFE_ROOT[1], ch.path)
                r == ApplyOne(fs, SAFE_ROOT[1], twin)
            IN /\ ch.op \in {"create", "update"}
               /\ fs' = r.fs
               /\ last'.log[1].ok = r.ok
               /\ last'.log[1].target = t
               /\ IF WriteBlocked(fs, t)
                  THEN /\ fs' = fs
                       /\ ~last'.log[1].ok
                       /\ Len(last'.errors) = 1
                       /\ last'.errors[1].op = ch.op
                  ELSE /\ last'.log[1].ok
                       /\ last'.errors = <<>>
                       /\ DOMAIN fs' = DOMAIN fs \cup Ancestors(t)
                       /\ fs'[t] = File(ch.content[1])
                       /\ \A a \in Ancestors(Front(t)) : is_dir(fs', a)
                       /\ \A q \in DOMAIN fs \ {t} : fs'[q] = fs[q] ]_vars

\* C11 witness: a create found a file with other content at its target and left
\* it empty; no error was recorded.
C11_Witness ==
    /\ ApplyShown
    /\ Changes[1].op = "create"
    /\ Changes[1].content = Some(<<>>)
    /\ last.log[1].before \notin {None, Some(File(<<>>))}
    /\ last.log[1].ok
    /\ last.log[1].after = Some(File(<<>>))
    /\ last.errors = <<>>

\* C12 as claimed: when an instruction is sent before the response to an earlier
\* one has arrived, each of the two responses is delivered. Fetch i is still
\* undelivered (notified = 0) and a later fetch j exists, so j was sent before
\* the response of i arrived; the claim leaves no such pair in a process that
\* was aborted, where nothing more is delivered.
C12_Original ==
    \A i, j \in 1..Len(workers) :
        (i < j /\ workers[i].notified = 0) => ~crashed

\* a step in which another project folder was opened
FolderOpened == SAFE_ROOT' # SAFE_ROOT /\ ~crashed'

\* whether one of two folders contains the other
Nested(r, q) == IsPrefix(r, q) \/ IsPrefix(q, r)

\* C13 as claimed: a run of apply_changes made after a folder other than A was
\* opened, on a plan requested or loaded while A was open, changes nodes under
\* the open folder only and none under A.
C13_Original ==
    (ApplyShown /\ Root # RootA) =>
        \A i \in 1..Len(last.log) :
            \A p \in last.log[i].wrote : IsPrefix(Root, p) /\ ~IsPrefix(RootA, p)

\* C13 as amended: opening another folder replaces SAFE_ROOT and leaves the held
\* plan, the workers, the queued signals and the filesystem as they were; a run
\* of apply_changes is the loop over the held plan against the SAFE_ROOT of that
\* moment, every applied operation has its target under it, and every node it
\* changes is under it, hence under no folder opened before unless that folder
\* contains SAFE_ROOT or lies inside it.
C13_RootAtApplyTime ==
    [][ /\ FolderOpened =>
              /\ SAFE_ROOT' # None
              /\ UNCHANGED <<fs, plan, offline, workers, events, runs>>
        /\ (ApplyCalled /\ plan # None /\ SAFE_ROOT # None) =>
              /\ fs' = ApplyLoop(fs, SAFE_ROOT[1], plan[1].changes, <<>>, <<>>).fs
              /\ \A i \in 1..Len(last'.log) :
                    last'.log[i].ok => IsPrefix(SAFE_ROOT[1], last'.log[i].target)
              /\ \A p \in Wrote(fs, fs') :
                    /\ IsPrefix(SAFE_ROOT[1], p)
                    /\ \A q \in SwitchRoots :
                          IsPrefix(q, p) => Nested(q, SAFE_ROOT[1]) ]_vars

\* C13 witness: the plan loaded while A was open was applied after B was opened,
\* with the fetch started under A still in flight: README.md is in B, not in A.
C13_Witness ==
    /\ ApplyShown
    /\ Root = RootB
    /\ plan = AIPlanOf(StubPlan(<<"a">>)).plan
    /\ workers[1].status = "running"
    /\ \E i \in 1..Len(last.log) : last.log[i].wrote = {RootB \o <<"README.md">>}
    /\ exists(fs, RootB \o <<"README.md">>)
    /\ ~exists(fs, RootA \o <<"README.md">>)

====
